---------------------------- MODULE Spec2Model ----------------------------
(***************************************************************************)
(* A model of the mpeg-dash HTTPS file server: the request read loop and   *)
(* response mapping of handle_client (src/src/server/mod.rs), the          *)
(* configuration singleton (src/src/config.rs), and the accept loop with   *)
(* its worker pool (DashServer::start_server, and main of src/src/main.rs).*)
(*                                                                         *)
(* Bytes and characters are one-character strings; a byte buffer or a      *)
(* string is a sequence of them.  "<FF>" stands for a byte that is not     *)
(* valid UTF-8, "<FFFD>" for the replacement character U+FFFD (3 bytes).   *)
(***************************************************************************)
EXTENDS Integers, Sequences, FiniteSets, TLC

VARIABLES
    GLOBAL_CONFIG,  \* config.rs: the static GlobalConfig singleton
    last_call,      \* outcome of the latest GlobalConfig::init / config call
    workers,        \* worker thread -> "idle" | "busy" | "dead"
    job,            \* worker thread -> the connection its job carries (0: none)
    queue,          \* the pool's work queue: connections waiting for a worker
    pc,             \* connection -> where its job / handle_client stands
                    \* (SpecInitRace: thread -> where its init call stands)
    req,            \* connection -> the bytes the client sends in all
    sent,           \* connection -> how many of them ssl_read has returned
    buf,            \* connection -> handle_client's accumulated `buf`
    nreads,         \* connection -> ssl_read calls that returned data
    gap,            \* connection -> time the current read has been blocked
    elapsed,        \* connection -> time spent in the read loop (capped)
    outcome,        \* connection -> how the read loop ended
    read_error,     \* connection -> the Err(error) that ssl_read returned
    verdict,        \* connection -> what the request-line parse decided
    file_read,      \* connection -> <<path>> handed to fs::read, or <<>>
                    \* (SpecInitRace: thread -> <<file>> its init reads)
    out             \* connection -> the write calls issued, in order

vars == <<GLOBAL_CONFIG, last_call, workers, job, queue, pc,
          req, sent, buf, nreads, gap, elapsed, outcome, read_error, verdict,
          file_read, out>>

confVars == <<GLOBAL_CONFIG, last_call>>
poolVars == <<workers, job, queue>>
connVars == <<pc, req, sent, buf, nreads, gap, elapsed, outcome, read_error,
              verdict, file_read, out>>

-----------------------------------------------------------------------------
(* Bounds of the model. *)

\* data-returning reads a client's bytes are split over, per connection
MaxReads == 3
\* the longest buffer is_end_of_header is called on by itself
MaxBufLen == 6
\* the read-loop clock stops counting here
MaxElapsed == 3

-----------------------------------------------------------------------------
(* Characters, byte strings. *)

SP == " "
HT == "\t"
CR == "\r"
LF == "\n"
CRLF == "\r\n"

Min(a, b) == IF a < b THEN a ELSE b

\* std: char::is_whitespace, on the characters of the model
is_whitespace(ch) == ch \in {SP, HT, CR, LF}

\* std: len_utf8
len_utf8(ch) == IF ch = "<FFFD>" THEN 3 ELSE 1

\* std: str::len, the length in bytes: the sum of the characters' len_utf8,
\* each of which is 1 or 3
str_len(s) ==
    Cardinality({i \in 1..Len(s) : len_utf8(s[i]) = 1})
    + 3 * Cardinality({i \in 1..Len(s) : len_utf8(s[i]) = 3})

\* std: String::from_utf8_lossy: an invalid byte becomes U+FFFD, every other
\* byte of the model is the character it encodes
lossy_char(byte) == IF byte = "<FF>" THEN "<FFFD>" ELSE byte

from_utf8_lossy(bytes) ==
    LET decoded == [i \in 1..Len(bytes) |-> lossy_char(bytes[i])]
    IN  SubSeq(decoded, 1, Len(bytes))

\* std: slice::ends_with, on the slice buffer[..k]
ends_with(buffer, k, end) ==
    /\ k >= Len(end)
    /\ \A i \in 1..Len(end) : buffer[k - Len(end) + i] = end[i]


-----------------------------------------------------------------------------
(* server/mod.rs: constants and helpers. *)

MAX_REQUEST_SIZE == 4096

\* is_end_of_header as the comment of lines 32-34 would have it: only the
\* last four bytes are compared
is_end_of_header_at_tail(buffer) ==
    ends_with(buffer, Len(buffer), <<CR, LF, CR, LF>>)

\* is_end_of_header: the loop shortens temp_buf = buffer[..k] from the full
\* length down to one byte and returns true at the first k where it ends
\* with "\r\n\r\n".
is_end_of_header(buffer) ==
    IF Len(buffer) < 4 THEN FALSE
    ELSE \E k \in 1..Len(buffer) : ends_with(buffer, k, <<CR, LF, CR, LF>>)

\* The errors ssl_read can return: the ssl error code and the io::Error it
\* wraps ("none" when the error is the TLS stack's own).
ReadErrors ==
    { [code |-> "WANT_READ", io |-> "WouldBlock"],        \* read timeout
      [code |-> "SYSCALL", io |-> "ConnectionReset"],     \* transport fault
      [code |-> "SYSCALL", io |-> "none"],                \* EOF, no close_notify
      [code |-> "ZERO_RETURN", io |-> "none"],            \* close_notify
      [code |-> "SSL", io |-> "none"] }                   \* protocol fault

NoError == [code |-> "none", io |-> "none"]

\* is_ssl_error with the test the wrong way round
is_ssl_error_inverted(error) == error.io # "none"

\* is_ssl_error: into_io_error() is Err when the error wraps no io::Error
is_ssl_error(error) == error.io = "none"

RESPONSE_404 == <<"HTTP/1.1 404 NOT FOUND", CRLF, CRLF>>
RESPONSE_405 == <<"HTTP/1.1 405 Method Not Allowed", CRLF, CRLF>>
RESPONSE_408 == <<"HTTP/1.1 408 REQUEST TIMEOUT", CRLF, CRLF>>
RESPONSE_413 == <<"HTTP/1.1 413 PAYLOAD TOO LARGE", CRLF, CRLF>>

-----------------------------------------------------------------------------
(* The request line: lines().next(), split_whitespace(). *)

\* index of the first character at or after `from` that is (ws = TRUE) or
\* is not (ws = FALSE) whitespace; 0 when there is none
find_char(s, from, ws) ==
    IF \E i \in from..Len(s) : is_whitespace(s[i]) = ws
    THEN CHOOSE i \in from..Len(s) :
            /\ is_whitespace(s[i]) = ws
            /\ \A j \in from..(i - 1) : is_whitespace(s[j]) # ws
    ELSE 0

\* std: str::lines().next(): <<>> for None, <<line>> for Some(line).  A line
\* ends at "\n"; the "\r" before that "\n" is not part of the line.
first_line(s) ==
    IF s = <<>> THEN <<>>
    ELSE IF \E i \in 1..Len(s) : s[i] = LF
         THEN LET nl == CHOOSE i \in 1..Len(s) :
                            s[i] = LF /\ \A j \in 1..(i - 1) : s[j] # LF
                  cut == IF nl > 1 /\ s[nl - 1] = CR THEN nl - 2 ELSE nl - 1
              IN  <<SubSeq(s, 1, cut)>>
         ELSE <<s>>

\* std: SplitWhitespace::next() on the rest of `line` from index `from`:
\* [tok |-> <<>> (None) or <<token>>, next |-> where the rest starts]
next_token(line, from) ==
    LET start == find_char(line, from, FALSE)
    IN  IF start = 0 THEN [tok |-> <<>>, next |-> Len(line) + 1]
        ELSE LET stop == find_char(line, start, TRUE)
                 last == IF stop = 0 THEN Len(line) ELSE stop - 1
             IN  [tok |-> <<SubSeq(line, start, last)>>, next |-> last + 1]

-----------------------------------------------------------------------------
(* The file system the server runs in: path -> contents, for the files that *)
(* fs::read can read.  Every other path makes fs::read fail.                *)

GET == <<"G", "E", "T">>
MPD == <<".", "m", "p", "d">>

Files ==
    (<<"a">> :> <<"x", "y">>)
    @@ ((<<"a">> \o MPD) :> (<<"<">> \o [i \in 1..11 |-> "m"]))
    @@ (<<"a", ".", "M", "P", "D">> :> <<"s">>)
    @@ (<<"e">> :> <<>>)

\* fs_read that takes a path it cannot read for an empty file
fs_read_missing_as_empty(path) ==
    IF path \in DOMAIN Files
    THEN [ok |-> TRUE, data |-> Files[path]]
    ELSE [ok |-> TRUE, data |-> <<>>]

\* std: fs::read
fs_read(path) ==
    IF path \in DOMAIN Files
    THEN [ok |-> TRUE, data |-> Files[path]]
    ELSE [ok |-> FALSE, data |-> <<>>]

-----------------------------------------------------------------------------
(* config.rs: the configuration document and its deserialization.          *)
(* A JSON value is [t, s, n, b]: its type and its string, number or        *)
(* boolean content.  A section (network, performance, security) is         *)
(* [kind, <its fields>] with kind "absent", "object" or "other" (a JSON    *)
(* value that is no object).                                               *)

Absent == [t |-> "absent", s |-> "", n |-> 0, b |-> FALSE]
JStr(str) == [t |-> "string", s |-> str, n |-> 0, b |-> FALSE]
JNum(num) == [t |-> "number", s |-> "", n |-> num, b |-> FALSE]
JBool(bool) == [t |-> "bool", s |-> "", n |-> 0, b |-> bool]

def_ipv4_addr == "0.0.0.0"
def_ipv4_port == "443"
def_allow_origin == "*"
def_thread_pool_size == 4
def_tcp_connection_timeout == 30
true_value == TRUE
def_ssl_cert_path == "cert.pem"
def_ssl_private_key_path == "private.pem"

def_network ==
    [port |-> def_ipv4_port, address |-> def_ipv4_addr,
     allow_origin |-> def_allow_origin]

def_performance ==
    [thread_pool_size |-> def_thread_pool_size,
     connection_timeout |-> def_tcp_connection_timeout]

def_security ==
    [https |-> true_value, certificate_file |-> def_ssl_cert_path,
     private_key_file |-> def_ssl_private_key_path]

\* serde: one field of type String / usize / f64 / bool with a default:
\* [ok, v].  A present value of another type is an error.
de_string(val, default) ==
    IF val.t = "absent" THEN [ok |-> TRUE, v |-> default]
    ELSE IF val.t = "string" THEN [ok |-> TRUE, v |-> val.s]
    ELSE [ok |-> FALSE, v |-> default]

de_usize(val, default) ==
    IF val.t = "absent" THEN [ok |-> TRUE, v |-> default]
    ELSE IF val.t = "number" /\ val.n >= 0 THEN [ok |-> TRUE, v |-> val.n]
    ELSE [ok |-> FALSE, v |-> default]

de_f64(val, default) ==
    IF val.t = "absent" THEN [ok |-> TRUE, v |-> default]
    ELSE IF val.t = "number" THEN [ok |-> TRUE, v |-> val.n]
    ELSE [ok |-> FALSE, v |-> default]

\* de_bool that takes a string for true
de_bool_lenient(val, default) ==
    IF val.t = "absent" THEN [ok |-> TRUE, v |-> default]
    ELSE IF val.t = "bool" THEN [ok |-> TRUE, v |-> val.b]
    ELSE IF val.t = "string" THEN [ok |-> TRUE, v |-> TRUE]
    ELSE [ok |-> FALSE, v |-> default]

de_bool(val, default) ==
    IF val.t = "absent" THEN [ok |-> TRUE, v |-> default]
    ELSE IF val.t = "bool" THEN [ok |-> TRUE, v |-> val.b]
    ELSE [ok |-> FALSE, v |-> default]

\* #[derive(Deserialize)] struct Network
de_Network(sec) ==
    IF sec.kind = "absent" THEN [ok |-> TRUE, v |-> def_network]
    ELSE IF sec.kind # "object" THEN [ok |-> FALSE, v |-> def_network]
    ELSE LET a == de_string(sec.address, def_ipv4_addr)
             p == de_string(sec.port, def_ipv4_port)
             o == de_string(sec.allowOrigin, def_allow_origin)
         IN  [ok |-> a.ok /\ p.ok /\ o.ok,
              v |-> [port |-> p.v, address |-> a.v, allow_origin |-> o.v]]

\* #[derive(Deserialize)] struct Performance
de_Performance(sec) ==
    IF sec.kind = "absent" THEN [ok |-> TRUE, v |-> def_performance]
    ELSE IF sec.kind # "object" THEN [ok |-> FALSE, v |-> def_performance]
    ELSE LET n == de_usize(sec.threadPoolSize, def_thread_pool_size)
             t == de_f64(sec.connectionTimeout, def_tcp_connection_timeout)
         IN  [ok |-> n.ok /\ t.ok,
              v |-> [thread_pool_size |-> n.v, connection_timeout |-> t.v]]

\* #[derive(Deserialize)] struct Security
de_Security(sec) ==
    IF sec.kind = "absent" THEN [ok |-> TRUE, v |-> def_security]
    ELSE IF sec.kind # "object" THEN [ok |-> FALSE, v |-> def_security]
    ELSE LET h == de_bool(sec.https, true_value)
             c == de_string(sec.certificateFile, def_ssl_cert_path)
             k == de_string(sec.privateKeyFile, def_ssl_private_key_path)
         IN  [ok |-> h.ok /\ c.ok /\ k.ok,
              v |-> [https |-> h.v, certificate_file |-> c.v,
                     private_key_file |-> k.v]]

\* serde_json::from_str::<Config>: [ok, v]
de_Config(doc) ==
    LET n == de_Network(doc.network)
        p == de_Performance(doc.performance)
        s == de_Security(doc.security)
    IN  [ok |-> n.ok /\ p.ok /\ s.ok,
         v |-> [network |-> n.v, performance |-> p.v, security |-> s.v]]

\* A configuration file: unreadable, readable but no JSON, or a JSON document.
NetworkSection(kind, address, port, origin) ==
    [kind |-> kind, address |-> address, port |-> port, allowOrigin |-> origin]

PerformanceSection(kind, size, timeout) ==
    [kind |-> kind, threadPoolSize |-> size, connectionTimeout |-> timeout]

SecuritySection(kind, https, cert, key) ==
    [kind |-> kind, https |-> https, certificateFile |-> cert,
     privateKeyFile |-> key]

NoNetwork == NetworkSection("absent", Absent, Absent, Absent)
NoPerformance == PerformanceSection("absent", Absent, Absent)
NoSecurity == SecuritySection("absent", Absent, Absent, Absent)

JsonFile(n, p, s) ==
    [readable |-> TRUE, json |-> TRUE,
     doc |-> [network |-> n, performance |-> p, security |-> s]]

\* test_data/config_empty_object.json: {}
EmptyObjectFile == JsonFile(NoNetwork, NoPerformance, NoSecurity)
\* a file that does not exist
MissingFile == [EmptyObjectFile EXCEPT !.readable = FALSE]
\* test_data/config_invalid_json.json
InvalidJsonFile == [EmptyObjectFile EXCEPT !.json = FALSE]

\* The files GlobalConfig::init is called on in the model.
ConfigFiles ==
    {MissingFile, InvalidJsonFile}
    \cup { JsonFile(NetworkSection(nk, Absent, Absent, o),
                    PerformanceSection("object", n, t),
                    SecuritySection("object", h, Absent, Absent)) :
             nk \in {"object", "other"},
             o \in {Absent, JStr("https://o"), JBool(TRUE)},
             n \in {Absent, JNum(1), JNum(-1), JStr("4")},
             t \in {Absent, JNum(2)},
             h \in {Absent, JStr("yes")} }
    \cup {EmptyObjectFile}

\* The files the server of the model is started with (as the tests'
\* unit_test_config.json: a small pool, a short timeout).
ServerConfigFile(origin, size, timeout) ==
    JsonFile(NetworkSection("object", Absent, Absent, origin),
             PerformanceSection("object", JNum(size), JNum(timeout)),
             NoSecurity)

HandlerConfigFiles ==
    { ServerConfigFile(Absent, 1, 2),
      ServerConfigFile(JStr("https://o"), 1, 1) }

\* GlobalConfig { configuration: Option<Config> }: <<>> is None
NoConfig == [configuration |-> <<>>]
SomeConfig(conf) == [configuration |-> <<conf>>]

\* GlobalConfig::is_init
is_init == GLOBAL_CONFIG.configuration # <<>>

-----------------------------------------------------------------------------
(* config.rs: GlobalConfig::init, GlobalConfig::config. *)

\* What the last call of the configuration's interface was and how it
\* ended: `file` is what was at the path given to init.
Call(op, file, result) == [op |-> op, file |-> file, result |-> result]

\* init without the assertion of line 144
GlobalConfig_init_unguarded(file) ==
    /\ IF ~file.readable
       THEN /\ last_call' = Call("init", file,
                                 "Cannot read the configuration file")
            /\ UNCHANGED GLOBAL_CONFIG
       ELSE IF ~file.json \/ ~de_Config(file.doc).ok
       THEN /\ last_call' = Call("init", file, "Json formatting error")
            /\ UNCHANGED GLOBAL_CONFIG
       ELSE /\ GLOBAL_CONFIG' = SomeConfig(de_Config(file.doc).v)
            /\ last_call' = Call("init", file, "ok")
    /\ UNCHANGED <<poolVars, connVars>>

\* GlobalConfig::init(path), `file` being what is at `path`
GlobalConfig_init(file) ==
    /\ IF is_init
       THEN \* assert!(!GlobalConfig::is_init())
            /\ last_call' = Call("init", file, "assertion failed")
            /\ UNCHANGED GLOBAL_CONFIG
       ELSE IF ~file.readable
       THEN \* .expect("Cannot read the configuration file")
            /\ last_call' = Call("init", file,
                                 "Cannot read the configuration file")
            /\ UNCHANGED GLOBAL_CONFIG
       ELSE IF ~file.json \/ ~de_Config(file.doc).ok
       THEN \* .expect("Json formatting error")
            /\ last_call' = Call("init", file, "Json formatting error")
            /\ UNCHANGED GLOBAL_CONFIG
       ELSE /\ GLOBAL_CONFIG' = SomeConfig(de_Config(file.doc).v)
            /\ last_call' = Call("init", file, "ok")
    /\ UNCHANGED <<poolVars, connVars>>

\* GlobalConfig::config(): configuration.as_ref().unwrap()
GlobalConfig_config ==
    /\ last_call' = Call("config", last_call.file,
                         IF is_init THEN "ok" ELSE "unwrap on None")
    /\ UNCHANGED <<GLOBAL_CONFIG, poolVars, connVars>>

\* the &'static Config that config() returns when it does not panic
config == GLOBAL_CONFIG.configuration[1]

-----------------------------------------------------------------------------
(* server/mod.rs: handle_client. *)

\* is_get with the comparison made without regard to case
is_get_ignore_case(method) == method \in {GET, <<"g", "e", "t">>}

\* Line 119: request_parts.next().unwrap() != "GET", negated
is_get(method) == method = GET

\* is_oversize that never finds the buffer too long
is_oversize_never(buffer) == FALSE

\* is_oversize with > for >=
is_oversize_strict(buffer) == Len(buffer) > MAX_REQUEST_SIZE

\* Line 91: buf.len() >= MAX_REQUEST_SIZE
is_oversize(buffer) == Len(buffer) >= MAX_REQUEST_SIZE

\* Lines 111-140: from the accumulated bytes to what is answered.
\*   verdict: "panic_line" (115), "panic_method" (119), "405", "panic_path"
\*   (126), "404_root", "panic_slice" (133: path[1..] does not start on a
\*   character boundary), "404_file", "200"
\*   read: <<relative_path>> when fs::read was called, else <<>>
parse_request(buffer) ==
    LET request_full == from_utf8_lossy(buffer)
        line == first_line(request_full)
    IN  IF line = <<>> THEN [verdict |-> "panic_line", read |-> <<>>]
        ELSE
        LET first == next_token(line[1], 1)
        IN  IF first.tok = <<>> THEN [verdict |-> "panic_method", read |-> <<>>]
            ELSE IF ~is_get(first.tok[1])
            THEN [verdict |-> "405", read |-> <<>>]
            ELSE
            LET second == next_token(line[1], first.next)
            IN  IF second.tok = <<>>
                THEN [verdict |-> "panic_path", read |-> <<>>]
                ELSE
                LET path == second.tok[1]
                IN  IF str_len(path) <= 1
                    THEN [verdict |-> "404_root", read |-> <<>>]
                    ELSE IF len_utf8(path[1]) # 1
                    THEN [verdict |-> "panic_slice", read |-> <<>>]
                    ELSE
                    LET relative_path == Tail(path)
                    IN  IF fs_read(relative_path).ok
                        THEN [verdict |-> "200", read |-> <<relative_path>>]
                        ELSE [verdict |-> "404_file",
                              read |-> <<relative_path>>]

\* where handle_client goes with a verdict
after_parse(v) ==
    CASE v = "405" -> "write_405"
      [] v \in {"404_root", "404_file"} -> "write_404"
      [] v = "200" -> "write_head"
      [] OTHER -> "panic"

\* file_type with the suffix compared without regard to case
file_type_any_case(relative_path) ==
    IF \/ ends_with(relative_path, Len(relative_path), MPD)
       \/ ends_with(relative_path, Len(relative_path), <<".", "M", "P", "D">>)
    THEN "application/dash+xml"
    ELSE "application/octet-stream"

\* Lines 142-146
file_type(relative_path) ==
    IF ends_with(relative_path, Len(relative_path), MPD)
    THEN "application/dash+xml"
    ELSE "application/octet-stream"

RECURSIVE to_decimal_reversed(_)
\* to_decimal with the digits in the order they are produced, lowest first
to_decimal_reversed(n) ==
    LET digit == <<"0", "1", "2", "3", "4", "5", "6", "7", "8", "9">>
    IN  IF n < 10 THEN <<digit[n + 1]>>
        ELSE <<digit[(n % 10) + 1]>> \o to_decimal_reversed(n \div 10)

RECURSIVE to_decimal(_)
\* format!("{}", n) for a usize
to_decimal(n) ==
    LET digit == <<"0", "1", "2", "3", "4", "5", "6", "7", "8", "9">>
    IN  IF n < 10 THEN <<digit[n + 1]>>
        ELSE to_decimal(n \div 10) \o <<digit[(n % 10) + 1]>>

\* Line 151: the head of a 200 response
response_head(access_origin, ftype, length) ==
    <<"HTTP/1.1 200 OK", CRLF,
      "Access-Control-Allow-Origin: ", access_origin, CRLF,
      "Content-type: ", ftype, CRLF,
      "Content-Length: ">> \o to_decimal(length) \o <<CRLF, CRLF>>

\* one call of stream.write / write_all / flush: the bytes handed to it and
\* whether it returned Ok
WriteCall(op, data, ok) == [op |-> op, data |-> data, ok |-> ok]

\* the sizes one ssl_read returns in the model when `avail` bytes can be had:
\* one byte, all but the last byte, or all of them
ChunkSizes(avail) == {n \in {1, avail - 1, avail} : 1 <= n /\ n <= avail}

\* extend_from_slice that keeps only the bytes of the last read
replace_with_slice(buffer, slice) == slice

\* Line 84: buf.extend_from_slice(&temp_buf[..data_len])
extend_from_slice(buffer, slice) == buffer \o slice

\* read_deadline_reached with the deadline counted from the start of the
\* read loop
deadline_from_loop_start(blocked, in_loop, timeout) == in_loop >= timeout

\* Lines 67-73: set_read_timeout on the TcpStream: a read fails with the
\* timeout error when it has itself been blocked for `timeout`, however
\* long the loop has been running
read_deadline_reached(blocked, in_loop, timeout) == blocked = timeout

\* Lines 65-73: config(), set_read_timeout
Start(c) ==
    /\ pc[c] = "start"
    /\ pc' = [pc EXCEPT ![c] = IF is_init THEN "read" ELSE "panic"]
    /\ UNCHANGED <<confVars, poolVars, req, sent, buf, nreads, gap, elapsed,
                   outcome, read_error, verdict, file_read, out>>

\* Time passes while ssl_read is blocked, up to the read timeout.
Tick(c) ==
    /\ pc[c] = "read"
    /\ gap[c] < config.performance.connection_timeout
    /\ elapsed[c] < MaxElapsed
    /\ gap' = [gap EXCEPT ![c] = @ + 1]
    /\ elapsed' = [elapsed EXCEPT ![c] = @ + 1]
    /\ UNCHANGED <<confVars, poolVars, pc, req, sent, buf, nreads, outcome,
                   read_error, verdict, file_read, out>>

\* Lines 82-95, Ok(data_len) with data_len > 0: n bytes arrive in time
ReadData(c, n) ==
    /\ pc[c] = "read"
    /\ gap[c] < config.performance.connection_timeout
    /\ nreads[c] < MaxReads
    /\ LET buf2 == extend_from_slice(buf[c],
                                      SubSeq(req[c], sent[c] + 1, sent[c] + n))
           p == parse_request(buf2)
       IN  /\ buf' = [buf EXCEPT ![c] = buf2]
           /\ IF is_end_of_header(buf2)
              THEN /\ outcome' = [outcome EXCEPT ![c] = "complete"]
                   /\ verdict' = [verdict EXCEPT ![c] = p.verdict]
                   /\ file_read' = [file_read EXCEPT ![c] = p.read]
                   /\ pc' = [pc EXCEPT ![c] = after_parse(p.verdict)]
              ELSE IF is_oversize(buf2)
              THEN /\ outcome' = [outcome EXCEPT ![c] = "oversize"]
                   /\ pc' = [pc EXCEPT ![c] = "write_413"]
                   /\ UNCHANGED <<verdict, file_read>>
              ELSE UNCHANGED <<outcome, verdict, file_read, pc>>
    /\ sent' = [sent EXCEPT ![c] = @ + n]
    /\ nreads' = [nreads EXCEPT ![c] = @ + 1]
    /\ gap' = [gap EXCEPT ![c] = 0]
    /\ UNCHANGED <<confVars, poolVars, req, elapsed, read_error, out>>

\* Lines 82-88, Ok(0): the loop breaks and the bytes read so far are parsed
ReadZero(c) ==
    /\ pc[c] = "read"
    /\ LET p == parse_request(buf[c])
       IN  /\ outcome' = [outcome EXCEPT ![c] = "closed"]
           /\ verdict' = [verdict EXCEPT ![c] = p.verdict]
           /\ file_read' = [file_read EXCEPT ![c] = p.read]
           /\ pc' = [pc EXCEPT ![c] = after_parse(p.verdict)]
    /\ UNCHANGED <<confVars, poolVars, req, sent, buf, nreads, gap, elapsed,
                   read_error, out>>

\* Lines 96-106, Err(error).  The timeout error comes when the read has been
\* blocked for connection_timeout; the others can come at any time.
ReadError(c, error) ==
    /\ pc[c] = "read"
    /\ error \in ReadErrors
    /\ error.io = "WouldBlock"
          => read_deadline_reached(gap[c], elapsed[c],
                                   config.performance.connection_timeout)
    /\ outcome' = [outcome EXCEPT ![c] = "error"]
    /\ read_error' = [read_error EXCEPT ![c] = error]
    /\ pc' = [pc EXCEPT ![c] =
                 IF ~is_ssl_error(error) THEN "write_408" ELSE "done"]
    /\ UNCHANGED <<confVars, poolVars, req, sent, buf, nreads, gap, elapsed,
                   verdict, file_read, out>>

\* response_404 / response_408 / response_413 and the 405 of lines 120-123:
\* one stream.write(..).unwrap(), then return
status_response(at) ==
    CASE at = "write_404" -> RESPONSE_404
      [] at = "write_405" -> RESPONSE_405
      [] at = "write_408" -> RESPONSE_408
      [] at = "write_413" -> RESPONSE_413

\* WriteStatus without the return of line 123: after the 405 response the
\* handler goes on to the response for a target it cannot serve
WriteStatus_no_return(c, ok) ==
    /\ pc[c] \in {"write_404", "write_405", "write_408", "write_413"}
    /\ out' = [out EXCEPT ![c] =
                  Append(@, WriteCall("write", status_response(pc[c]), ok))]
    /\ pc' = [pc EXCEPT ![c] = IF ~ok THEN "panic"
                               ELSE IF pc[c] = "write_405" THEN "write_404"
                               ELSE "done"]
    /\ UNCHANGED <<confVars, poolVars, req, sent, buf, nreads, gap, elapsed,
                   outcome, read_error, verdict, file_read>>

WriteStatus(c, ok) ==
    /\ pc[c] \in {"write_404", "write_405", "write_408", "write_413"}
    /\ out' = [out EXCEPT ![c] =
                  Append(@, WriteCall("write", status_response(pc[c]), ok))]
    /\ pc' = [pc EXCEPT ![c] = IF ok THEN "done" ELSE "panic"]
    /\ UNCHANGED <<confVars, poolVars, req, sent, buf, nreads, gap, elapsed,
                   outcome, read_error, verdict, file_read>>

\* Lines 142-152: stream.write(out.as_bytes()).unwrap()
WriteHead(c, ok) ==
    /\ pc[c] = "write_head"
    /\ LET relative_path == file_read[c][1]
           file_data == fs_read(relative_path).data
           access_origin == config.network.allow_origin
           head == response_head(access_origin, file_type(relative_path),
                                 Len(file_data))
       IN  out' = [out EXCEPT ![c] = Append(@, WriteCall("write", head, ok))]
    /\ pc' = [pc EXCEPT ![c] = IF ok THEN "write_body" ELSE "panic"]
    /\ UNCHANGED <<confVars, poolVars, req, sent, buf, nreads, gap, elapsed,
                   outcome, read_error, verdict, file_read>>

\* Line 153: stream.write_all(&file_data[..]).unwrap()
WriteBody(c, ok) ==
    /\ pc[c] = "write_body"
    /\ LET file_data == fs_read(file_read[c][1]).data
       IN  out' = [out EXCEPT ![c] = Append(@, WriteCall("write_all", file_data, ok))]
    /\ pc' = [pc EXCEPT ![c] = IF ok THEN "flush" ELSE "panic"]
    /\ UNCHANGED <<confVars, poolVars, req, sent, buf, nreads, gap, elapsed,
                   outcome, read_error, verdict, file_read>>

\* Line 154: stream.flush().unwrap()
Flush(c, ok) ==
    /\ pc[c] = "flush"
    /\ out' = [out EXCEPT ![c] = Append(@, WriteCall("flush", <<>>, ok))]
    /\ pc' = [pc EXCEPT ![c] = IF ok THEN "done" ELSE "panic"]
    /\ UNCHANGED <<confVars, poolVars, req, sent, buf, nreads, gap, elapsed,
                   outcome, read_error, verdict, file_read>>

\* handle_client(stream): the steps of the handler of connection c
handle_client(c) ==
    \/ Start(c)
    \/ Tick(c)
    \/ \E n \in ChunkSizes(Min(Len(req[c]) - sent[c], MAX_REQUEST_SIZE)) :
          ReadData(c, n)
    \/ ReadZero(c)
    \/ \E error \in ReadErrors : ReadError(c, error)
    \/ \E ok \in BOOLEAN : WriteStatus(c, ok)
    \/ \E ok \in BOOLEAN : WriteHead(c, ok)
    \/ \E ok \in BOOLEAN : WriteBody(c, ok)
    \/ \E ok \in BOOLEAN : Flush(c, ok)

-----------------------------------------------------------------------------
(* The requests clients send in the model. *)

PUT == <<"P", "U", "T">>
HTTP10 == <<SP, "H", "T", "T", "P", "/", "1", ".", "0">>
Terminator == <<CR, LF, CR, LF>>

\* `total` bytes: prefix, then "A"s, then suffix
Fill(prefix, total, suffix) ==
    prefix \o [i \in 1..(total - Len(prefix) - Len(suffix)) |-> "A"] \o suffix

Targets ==
    { <<>>, <<"/">>, <<"/", "a">>, <<"/", "a">> \o MPD, <<"/", "e">>,
      <<"/", "a", ".", "M", "P", "D">>,
      <<"/", "z">>, <<"a">>, <<"x", "a">>, <<"/", "<FF>">>, <<"<FF>", "a">> }

RequestLines ==
    { m \o s \o t : m \in {GET, PUT}, s \in {<<SP>>, <<HT>>}, t \in Targets }
    \cup { GET \o <<SP, "/", "a">> \o MPD \o HTTP10,
           PUT \o <<SP, "/">> \o HTTP10,
           <<"g", "e", "t", SP, "/", "a">>,
           <<SP>> \o GET \o <<SP, "/", "a">>,
           GET \o <<"/", "a">>,
           GET,
           <<>>,
           <<"<FF>">> }

ShortRequests ==
    { l \o e : l \in RequestLines, e \in {<<>>, Terminator} }
    \cup { PUT \o <<SP, "/">> \o HTTP10 \o Terminator \o <<"B">>,
           GET \o <<SP, "/", "a", LF, LF>>,
           <<LF>> \o GET \o <<SP, "/", "a">> \o Terminator }

LongRequests ==
    { Fill(<<>>, MAX_REQUEST_SIZE, <<>>),
      Fill(<<>>, MAX_REQUEST_SIZE, Terminator),
      Fill(<<>>, MAX_REQUEST_SIZE + 4, Terminator),
      Fill(GET \o <<SP, "/", "a", SP>>, MAX_REQUEST_SIZE - 1, Terminator) }

Requests == ShortRequests \cup LongRequests

-----------------------------------------------------------------------------
(* Spec: one connection in handle_client, for every request of the model,  *)
(* every split of its bytes over reads, and every read and write outcome.  *)

InitConn(conns, at) ==
    /\ pc = [c \in conns |-> at]
    /\ sent = [c \in conns |-> 0]
    /\ buf = [c \in conns |-> <<>>]
    /\ nreads = [c \in conns |-> 0]
    /\ gap = [c \in conns |-> 0]
    /\ elapsed = [c \in conns |-> 0]
    /\ outcome = [c \in conns |-> "none"]
    /\ read_error = [c \in conns |-> NoError]
    /\ verdict = [c \in conns |-> "none"]
    /\ file_read = [c \in conns |-> <<>>]
    /\ out = [c \in conns |-> <<>>]

Init ==
    /\ \E f \in HandlerConfigFiles :
          /\ GLOBAL_CONFIG = SomeConfig(de_Config(f.doc).v)
          /\ last_call = Call("init", f, "ok")
    /\ workers = <<"busy">>
    /\ job = <<1>>
    /\ queue = <<>>
    /\ req \in [{1} -> Requests]
    /\ InitConn({1}, "start")

Next ==
    \/ \E c \in DOMAIN pc : Start(c)
    \/ \E c \in DOMAIN pc : Tick(c)
    \/ \E c \in DOMAIN pc :
          \E n \in ChunkSizes(Min(Len(req[c]) - sent[c], MAX_REQUEST_SIZE)) :
             ReadData(c, n)
    \/ \E c \in DOMAIN pc : ReadZero(c)
    \/ \E c \in DOMAIN pc, error \in ReadErrors : ReadError(c, error)
    \/ \E c \in DOMAIN pc, ok \in BOOLEAN : WriteStatus(c, ok)
    \/ \E c \in DOMAIN pc, ok \in BOOLEAN : WriteHead(c, ok)
    \/ \E c \in DOMAIN pc, ok \in BOOLEAN : WriteBody(c, ok)
    \/ \E c \in DOMAIN pc, ok \in BOOLEAN : Flush(c, ok)

Spec == Init /\ [][Next]_vars

\* Lines 82-83, 96: a call of ssl_read does not block for ever; when
\* nothing else ends it, it returns an error
ReadReturns == \E c \in DOMAIN pc, error \in ReadErrors : ReadError(c, error)

\* Spec, with every call of ssl_read returning
SpecReadsReturn == Spec /\ WF_vars(ReadReturns)

-----------------------------------------------------------------------------
(* What a connection was sent, in the terms the properties use. *)

Conns == DOMAIN pc

\* handle_client has returned or panicked
Terminated(c) == pc[c] \in {"done", "panic"}

\* the byte strings handed to stream.write / write_all, in order
Issued(c) == [i \in 1..Len(out[c]) |-> out[c][i].data]

AllWritesOk(c) == \A i \in 1..Len(out[c]) : out[c][i].ok

RECURSIVE Flatten(_)
Flatten(seqs) == IF seqs = <<>> THEN <<>> ELSE Head(seqs) \o Flatten(Tail(seqs))

\* every piece the handler handed to the stream, as one response
Wire(c) == Flatten(Issued(c))

StartsWith(s, prefix) ==
    Len(s) >= Len(prefix) /\ SubSeq(s, 1, Len(prefix)) = prefix

\* index of the first "\r\n" of a response at or after `from`; 0 if none
FirstCRLF(w, from) ==
    IF \E i \in from..Len(w) : w[i] = CRLF
    THEN CHOOSE i \in from..Len(w) :
            w[i] = CRLF /\ \A j \in from..(i - 1) : w[j] # CRLF
    ELSE 0

\* the first line of a response: what precedes its first "\r\n"
FirstResponseLine(w) ==
    IF FirstCRLF(w, 1) = 0 THEN w ELSE SubSeq(w, 1, FirstCRLF(w, 1) - 1)

\* index of the blank line that ends the head of a response; 0 if none
BlankLine(w) ==
    IF \E i \in 1..(Len(w) - 1) : w[i] = CRLF /\ w[i + 1] = CRLF
    THEN CHOOSE i \in 1..(Len(w) - 1) :
            /\ w[i] = CRLF /\ w[i + 1] = CRLF
            /\ \A j \in 1..(i - 1) : ~(w[j] = CRLF /\ w[j + 1] = CRLF)
    ELSE 0

ResponseBody(w) == SubSeq(w, BlankLine(w) + 2, Len(w))

RECURSIVE from_decimal(_)
\* the number a string of decimal digits denotes
from_decimal(digits) ==
    LET value(d) == CHOOSE n \in 0..9 : to_decimal(n) = <<d>>
    IN  IF digits = <<>> THEN 0
        ELSE 10 * from_decimal(SubSeq(digits, 1, Len(digits) - 1))
             + value(digits[Len(digits)])

\* the value of the header named `name` ("Content-Length: ", ...): the
\* pieces between the name and the end of its line
HeaderValue(w, name) ==
    LET i == CHOOSE i \in 1..Len(w) : w[i] = name
    IN  SubSeq(w, i + 1, FirstCRLF(w, i) - 1)

HasHeader(w, name) == \E i \in 1..Len(w) : w[i] = name

\* the handler of connection c has issued the head of a 200 response
Has200Head(c) ==
    /\ out[c] # <<>>
    /\ out[c][1].data # <<>>
    /\ out[c][1].data[1] = "HTTP/1.1 200 OK"

\* the request line of the bytes the handler accumulated, and its tokens
RequestLine(c) == first_line(from_utf8_lossy(buf[c]))
Method(c) == next_token(RequestLine(c)[1], 1)
Target(c) == next_token(RequestLine(c)[1], Method(c).next)
HasMethod(c) == RequestLine(c) # <<>> /\ Method(c).tok # <<>>
HasTarget(c) == HasMethod(c) /\ Target(c).tok # <<>>

-----------------------------------------------------------------------------
(* C1 *)

\* C1, as claimed: every byte sequence delivered to handle_client that does
\* not begin with the four bytes "GET " is answered with the first line
\* "HTTP/1.1 405 Method Not Allowed", and no file is read.  Stated for the
\* requests the read loop took in (complete or oversize) whose first line
\* has a token, those without one being the matter of another property.
C1_NotGetPrefixGives405 ==
    \A c \in Conns :
        (/\ Terminated(c)
         /\ outcome[c] \in {"complete", "oversize"}
         /\ HasMethod(c)
         /\ ~StartsWith(buf[c], GET \o <<SP>>))
        => /\ FirstResponseLine(Wire(c)) = <<"HTTP/1.1 405 Method Not Allowed">>
           /\ file_read[c] = <<>>

\* C1, amended: when the read loop ends by a break (the header terminator
\* was seen, or a read returned zero bytes) and the first line of the bytes
\* read has a first whitespace-separated token that is not exactly "GET",
\* the handler issues exactly one write, of
\* "HTTP/1.1 405 Method Not Allowed\r\n\r\n", and reads no file.
C1_MethodNotGetGives405 ==
    \A c \in Conns :
        (/\ Terminated(c)
         /\ outcome[c] \in {"complete", "closed"}
         /\ HasMethod(c)
         /\ Method(c).tok[1] # GET)
        => /\ Issued(c) = <<RESPONSE_405>>
           /\ file_read[c] = <<>>

C1_Witness ==
    \E c \in Conns :
        /\ pc[c] = "done"
        /\ outcome[c] = "complete"
        /\ nreads[c] > 1
        /\ StartsWith(req[c], PUT)
        /\ Issued(c) = <<RESPONSE_405>>

-----------------------------------------------------------------------------
(* C2 *)

-----------------------------------------------------------------------------
(* C3 *)

TimedOut(c) == read_error[c].io = "WouldBlock"

\* C3: once a read of the request has timed out, whatever bytes were read
\* before, the handler parses nothing, reads no file, and the only write it
\* issues is "HTTP/1.1 408 REQUEST TIMEOUT\r\n\r\n"; from then on it reads
\* no further byte of the request.
C3_TimeoutGives408 ==
    /\ [](\A c \in Conns :
            TimedOut(c)
            => /\ outcome[c] = "error"
               /\ pc[c] \in {"write_408", "done", "panic"}
               /\ verdict[c] = "none"
               /\ file_read[c] = <<>>
               /\ IF pc[c] = "write_408"
                  THEN out[c] = <<>>
                  ELSE Issued(c) = <<RESPONSE_408>>)
    /\ [][\A c \in Conns :
            TimedOut(c) => /\ TimedOut(c)'
                           /\ buf'[c] = buf[c]
                           /\ sent'[c] = sent[c]
                           /\ nreads'[c] = nreads[c]]_vars

C3_Witness ==
    \E c \in Conns :
        /\ TimedOut(c)
        /\ pc[c] = "done"
        /\ 0 < sent[c] /\ sent[c] < Len(req[c])
        /\ StartsWith(buf[c], GET \o <<SP, "/", "a">>)
        /\ Wire(c) = RESPONSE_408

-----------------------------------------------------------------------------
(* C4 *)

\* a complete GET request whose target is "/" followed by the name of a
\* readable file
IsGetOfFile(c) ==
    /\ outcome[c] = "complete"
    /\ HasTarget(c)
    /\ Method(c).tok[1] = GET
    /\ Target(c).tok[1][1] = "/"
    /\ Tail(Target(c).tok[1]) \in DOMAIN Files

RequestedFile(c) == Files[Tail(Target(c).tok[1])]

\* C4: for a complete GET request whose target, less its leading "/", names
\* a readable file, the response (when every write succeeds) has the status
\* line "HTTP/1.1 200 OK", a Content-Length header whose value is the
\* file's size in bytes, and after the blank line exactly the file's bytes.
C4_GetOfFileGives200 ==
    \A c \in Conns :
        (Terminated(c) /\ IsGetOfFile(c) /\ AllWritesOk(c))
        => /\ pc[c] = "done"
           /\ FirstResponseLine(Wire(c)) = <<"HTTP/1.1 200 OK">>
           /\ HasHeader(Wire(c), "Content-Length: ")
           /\ from_decimal(HeaderValue(Wire(c), "Content-Length: "))
                 = Len(RequestedFile(c))
           /\ BlankLine(Wire(c)) > 0
           /\ ResponseBody(Wire(c)) = RequestedFile(c)

C4_Witness ==
    \E c \in Conns :
        /\ pc[c] = "done"
        /\ IsGetOfFile(c)
        /\ AllWritesOk(c)
        /\ Len(RequestedFile(c)) >= 10
        /\ ResponseBody(Wire(c)) = RequestedFile(c)

-----------------------------------------------------------------------------
(* C5 *)

\* what handle_client writes, and how it ends, when the whole of request r
\* comes in one read and every write succeeds
SingleWrite(r) ==
    LET p == parse_request(r)
        at == after_parse(p.verdict)
    IN  IF at = "panic" THEN [issued |-> <<>>, pc |-> "panic"]
        ELSE IF at = "write_head"
        THEN LET file_data == fs_read(p.read[1]).data
             IN  [issued |-> <<response_head(config.network.allow_origin,
                                             file_type(p.read[1]),
                                             Len(file_data)),
                               file_data, <<>>>>,
                  pc |-> "done"]
        ELSE [issued |-> <<status_response(at)>>, pc |-> "done"]

EndsWithTerminator(r) == ends_with(r, Len(r), Terminator)

\* C5: a request that ends in "\r\n\r\n" and is shorter than
\* MAX_REQUEST_SIZE, delivered in any sequence of non-empty chunks without a
\* timeout, gets the writes, and the handler the end, that the same request
\* gets when it is delivered in a single read.
C5_SplitIndependent ==
    \A c \in Conns :
        (/\ Terminated(c)
         /\ outcome[c] = "complete"
         /\ AllWritesOk(c)
         /\ EndsWithTerminator(req[c])
         /\ Len(req[c]) < MAX_REQUEST_SIZE)
        => /\ Issued(c) = SingleWrite(req[c]).issued
           /\ pc[c] = SingleWrite(req[c]).pc

C5_Witness ==
    \E c \in Conns :
        /\ pc[c] = "done"
        /\ outcome[c] = "complete"
        /\ nreads[c] >= 3
        /\ EndsWithTerminator(req[c])
        /\ Len(req[c]) < MAX_REQUEST_SIZE
        /\ verdict[c] = "200"
        /\ AllWritesOk(c)
        /\ Issued(c) = SingleWrite(req[c]).issued

-----------------------------------------------------------------------------
(* C10 *)

\* a complete request whose first token is GET and whose second token is
\* absent or at most one byte long
IsGetOfNothing(c) ==
    /\ outcome[c] = "complete"
    /\ HasMethod(c)
    /\ Method(c).tok[1] = GET
    /\ (HasTarget(c) => str_len(Target(c).tok[1]) <= 1)

\* C10, as claimed: a complete request whose first token is GET and whose
\* request-target is absent or of length <= 1 is answered with
\* "HTTP/1.1 404 NOT FOUND\r\n\r\n" and nothing else.
C10_NoTargetGives404 ==
    \A c \in Conns :
        (Terminated(c) /\ IsGetOfNothing(c) /\ AllWritesOk(c))
        => /\ pc[c] = "done"
           /\ Wire(c) = RESPONSE_404

-----------------------------------------------------------------------------
(* C11 *)

\* the bytes the handler parses (the loop ended by a break) make a GET whose
\* target, less its first character, is a path that fs::read cannot read
IsGetOfMissingFile(c) ==
    /\ outcome[c] \in {"complete", "closed"}
    /\ HasTarget(c)
    /\ Method(c).tok[1] = GET
    /\ str_len(Target(c).tok[1]) > 1
    /\ len_utf8(Target(c).tok[1][1]) = 1
    /\ Tail(Target(c).tok[1]) \notin DOMAIN Files

\* C11: when the read of the requested file fails, the one write the handler
\* issues is "HTTP/1.1 404 NOT FOUND\r\n\r\n": a status line, no header, no
\* body, and no piece of a 200 response before or after it.
C11_ReadFailureGives404 ==
    \A c \in Conns :
        IsGetOfMissingFile(c)
        => /\ file_read[c] = <<Tail(Target(c).tok[1])>>
           /\ pc[c] \in {"write_404", "done", "panic"}
           /\ IF pc[c] = "write_404"
              THEN out[c] = <<>>
              ELSE /\ Issued(c) = <<RESPONSE_404>>
                   /\ Wire(c) = <<"HTTP/1.1 404 NOT FOUND", CRLF, CRLF>>
                   /\ out[c][1].ok <=> pc[c] = "done"

C11_Witness ==
    \E c \in Conns :
        /\ pc[c] = "done"
        /\ IsGetOfMissingFile(c)
        /\ outcome[c] = "complete"
        /\ nreads[c] > 1
        /\ Wire(c) = RESPONSE_404

-----------------------------------------------------------------------------
(* C13 *)

\* the request path with its first character stripped
StrippedPath(c) == Tail(Target(c).tok[1])

\* the last four characters of path p are ".mpd"
EndsInMpd(p) ==
    Len(p) >= 4 /\ SubSeq(p, Len(p) - 3, Len(p)) = <<".", "m", "p", "d">>

\* C13: the head of every 200 response has a Content-type header whose
\* value is "application/dash+xml" when the stripped request path ends in
\* ".mpd", these four characters exactly, and "application/octet-stream"
\* when it does not.
C13_ContentTypeBySuffix ==
    \A c \in Conns :
        Has200Head(c)
        => /\ HasTarget(c)
           /\ HasHeader(out[c][1].data, "Content-type: ")
           /\ HeaderValue(out[c][1].data, "Content-type: ")
                 = IF EndsInMpd(StrippedPath(c))
                   THEN <<"application/dash+xml">>
                   ELSE <<"application/octet-stream">>

C13_Witness ==
    \E c \in Conns :
        /\ pc[c] = "done"
        /\ Has200Head(c)
        /\ EndsInMpd(StrippedPath(c))
        /\ HeaderValue(Wire(c), "Content-type: ") = <<"application/dash+xml">>

-----------------------------------------------------------------------------
(* C14 *)

\* the read loop of connection c ended on a read that returned zero bytes
OrderlyClose(c) == outcome[c] = "closed"

\* C14, as claimed: when a read returns zero bytes before a header
\* terminator was seen, the handler does what it does on a TLS fault: it
\* parses nothing of the bytes accumulated so far, reads no file, writes
\* nothing and returns, whatever the accumulated bytes are, none included.
C14_ZeroReadDropsSilently ==
    \A c \in Conns :
        OrderlyClose(c)
        => /\ verdict[c] = "none"
           /\ file_read[c] = <<>>
           /\ out[c] = <<>>
           /\ pc[c] = "done"

-----------------------------------------------------------------------------
(* C15 *)

\* C15, as claimed: in every reachable state, however the bytes are split
\* over reads, the request buffer holds at most MAX_REQUEST_SIZE bytes.
C15_BufferWithinMax ==
    \A c \in Conns : Len(buf[c]) <= MAX_REQUEST_SIZE

-----------------------------------------------------------------------------
(* C16 *)

\* buffer b holds "\r\n\r\n"
HasTerminator(b) == \E k \in 4..Len(b) : SubSeq(b, k - 3, k) = Terminator

LoopOutcomes == {"complete", "closed", "oversize", "error"}

\* C16: provided every call of ssl_read returns, the read loop ends, and it
\* ends in one of the four outcomes, which then stays: complete (the
\* terminator is in the buffer), orderly close (a read of zero bytes),
\* oversize (MAX_REQUEST_SIZE bytes or more and no terminator) or read
\* error.  While the loop goes on the buffer holds fewer than
\* MAX_REQUEST_SIZE bytes and no terminator, and every read that returned
\* bytes added at least one: the loop goes on after at most
\* MAX_REQUEST_SIZE - 1 reads, and ends at the next at the latest.
C16_ReadLoopTerminates ==
    /\ \A c \in {1} : (pc[c] = "read") ~> (outcome[c] \in LoopOutcomes)
    /\ [](\A c \in Conns :
            /\ nreads[c] <= Len(buf[c])
            /\ pc[c] \in {"start", "read"}
               => /\ outcome[c] = "none"
                  /\ Len(buf[c]) < MAX_REQUEST_SIZE
                  /\ ~HasTerminator(buf[c])
                  /\ nreads[c] <= MAX_REQUEST_SIZE - 1
            /\ pc[c] \notin {"start", "read"}
               => /\ outcome[c] \in LoopOutcomes
                  /\ outcome[c] = "complete" => HasTerminator(buf[c])
                  /\ outcome[c] = "oversize"
                     => /\ ~HasTerminator(buf[c])
                        /\ Len(buf[c]) >= MAX_REQUEST_SIZE
                  /\ outcome[c] = "closed"
                     => ~HasTerminator(buf[c]) /\ read_error[c] = NoError
                  /\ outcome[c] = "error" <=> read_error[c] \in ReadErrors)
    /\ [][\A c \in Conns :
            outcome[c] # "none" => outcome'[c] = outcome[c]]_vars

C16_Witness ==
    \E c \in Conns :
        /\ outcome[c] = "oversize"
        /\ nreads[c] = MaxReads
        /\ Len(buf[c]) >= MAX_REQUEST_SIZE

-----------------------------------------------------------------------------
(* C17 *)

\* C17, as claimed: a complete request whose first line holds no
\* whitespace-separated token ends the handler as a malformed request: the
\* handler returns, without a panic, and reads no file.
C17_NoTokenReturnsNormally ==
    \A c \in Conns :
        (Terminated(c) /\ outcome[c] = "complete" /\ ~HasMethod(c))
        => /\ pc[c] = "done"
           /\ file_read[c] = <<>>

-----------------------------------------------------------------------------
(* C18 *)

\* a write, write_all or flush of the handler of connection c has failed
WriteFailed(c) == \E i \in 1..Len(out[c]) : ~out[c][i].ok

\* C18, as claimed: when a write of a response fails, that write is the
\* last call the handler makes on the stream, none is made again, and the
\* handler returns as it does after a write that succeeds.
C18_FailedWriteReturns ==
    \A c \in Conns :
        WriteFailed(c)
        => /\ \A i \in 1..Len(out[c]) : ~out[c][i].ok => i = Len(out[c])
           /\ pc[c] = "done"

-----------------------------------------------------------------------------
(* C20 *)

\* the whole request of connection c came in, in more reads than one, and
\* the time from the first read to the last is more than connectionTimeout
SlowButSteady(c) ==
    /\ outcome[c] = "complete"
    /\ nreads[c] >= 2
    /\ elapsed[c] > config.performance.connection_timeout

\* C20: the deadline is that of each read, not of the loop.  A read times
\* out only when it has itself been blocked for connectionTimeout, so a
\* request whose chunks all come within connectionTimeout of the read that
\* waits for them is never timed out; and when such a request took longer
\* than connectionTimeout in all, it gets the response it gets when it
\* comes in a single read.
C20_DeadlinePerRead ==
    /\ [][\A c \in Conns :
            (~TimedOut(c) /\ TimedOut(c)')
            => gap[c] = config.performance.connection_timeout]_vars
    /\ [](\A c \in Conns :
            (/\ Terminated(c)
             /\ SlowButSteady(c)
             /\ AllWritesOk(c)
             /\ EndsWithTerminator(req[c])
             /\ Len(req[c]) < MAX_REQUEST_SIZE)
            => /\ ~TimedOut(c)
               /\ Issued(c) = SingleWrite(req[c]).issued
               /\ pc[c] = SingleWrite(req[c]).pc)

C20_Witness ==
    \E c \in Conns :
        /\ pc[c] = "done"
        /\ SlowButSteady(c)
        /\ nreads[c] = 3
        /\ verdict[c] = "200"
        /\ AllWritesOk(c)
        /\ FirstResponseLine(Wire(c)) = <<"HTTP/1.1 200 OK">>

-----------------------------------------------------------------------------
(* server/mod.rs: DashServer::new and DashServer::start_server, with the   *)
(* thread pool of the mpeg_dash library: a fixed set of worker threads and *)
(* one queue of jobs.  A worker is "idle" (blocked on the queue), "busy"   *)
(* (running the job of connection job[w]) or "dead" (its thread has        *)
(* unwound from a panic).  A connection is "new" until the listener yields *)
(* it, "queued" until a worker takes its job, in "handshake" during        *)
(* acceptor.accept, and then in handle_client.                             *)

\* the connections of the model
NConn == 2

\* ThreadPool::new(size)
ThreadPool_new(size) == [w \in 1..size |-> "idle"]

\* DashServer::new with a pool one thread larger than configured
DashServer_new_one_more(ok) ==
    /\ workers = <<>>
    /\ IF ~is_init
       THEN /\ last_call' = Call("new", last_call.file, "unwrap on None")
            /\ UNCHANGED workers
       ELSE IF ~ok
       THEN /\ last_call' = Call("new", last_call.file, "unwrap on Err")
            /\ UNCHANGED workers
       ELSE /\ workers' = ThreadPool_new(config.performance.thread_pool_size + 1)
            /\ last_call' = Call("new", last_call.file, "ok")
    /\ job' = [w \in DOMAIN workers' |-> 0]
    /\ UNCHANGED <<GLOBAL_CONFIG, queue, connVars>>

\* DashServer::new: config(), the TLS acceptor and the listener (ok: the key,
\* the certificate and the bind are all fine), and the pool
DashServer_new(ok) ==
    /\ workers = <<>>
    /\ IF ~is_init
       THEN /\ last_call' = Call("new", last_call.file, "unwrap on None")
            /\ UNCHANGED workers
       ELSE IF ~ok
       THEN /\ last_call' = Call("new", last_call.file, "unwrap on Err")
            /\ UNCHANGED workers
       ELSE /\ workers' = ThreadPool_new(config.performance.thread_pool_size)
            /\ last_call' = Call("new", last_call.file, "ok")
    /\ job' = [w \in DOMAIN workers' |-> 0]
    /\ UNCHANGED <<GLOBAL_CONFIG, queue, connVars>>

\* ThreadPool::execute(job): the job joins the queue; the caller goes on
ThreadPool_execute(c) == queue' = Append(queue, c)

\* start_server, Ok(stream): the listener yields connection c, and the job
\* that will serve it is handed to the pool
Accept(c) ==
    /\ workers # <<>>
    /\ pc[c] = "new"
    /\ \A d \in Conns : d < c => pc[d] # "new"
    /\ ThreadPool_execute(c)
    /\ pc' = [pc EXCEPT ![c] = "queued"]
    /\ UNCHANGED <<confVars, workers, job, req, sent, buf,
                   nreads, gap, elapsed, outcome, read_error, verdict,
                   file_read, out>>

\* start_server, Err(e): the error is printed and the loop goes on; nothing
\* of the server changes
AcceptError ==
    /\ workers # <<>>
    /\ UNCHANGED vars

\* A worker blocked on the queue takes the job at its head.
Dequeue(w) ==
    /\ workers[w] = "idle"
    /\ queue # <<>>
    /\ workers' = [workers EXCEPT ![w] = "busy"]
    /\ job' = [job EXCEPT ![w] = Head(queue)]
    /\ queue' = Tail(queue)
    /\ pc' = [pc EXCEPT ![Head(queue)] = "handshake"]
    /\ UNCHANGED <<confVars, req, sent, buf, nreads, gap,
                   elapsed, outcome, read_error, verdict, file_read, out>>

\* Lines 203-205: if let Ok(stream) = acceptor.accept(stream)
\*                    { handle_client(stream); }
Handshake(c, ok) ==
    /\ pc[c] = "handshake"
    /\ pc' = [pc EXCEPT ![c] = IF ok THEN "start" ELSE "dropped"]
    /\ UNCHANGED <<confVars, poolVars, req, sent, buf, nreads, gap, elapsed,
                   outcome, read_error, verdict, file_read, out>>

\* The job is over: the stream and the request buffer of its connection go
\* out of scope.  What the client was sent stays.
drop_connection(c) ==
    /\ sent' = [sent EXCEPT ![c] = 0]
    /\ buf' = [buf EXCEPT ![c] = <<>>]
    /\ nreads' = [nreads EXCEPT ![c] = 0]
    /\ gap' = [gap EXCEPT ![c] = 0]
    /\ elapsed' = [elapsed EXCEPT ![c] = 0]
    /\ read_error' = [read_error EXCEPT ![c] = NoError]
    /\ pc' = [pc EXCEPT ![c] = CASE @ = "done" -> "closed"
                                  [] @ = "panic" -> "unwound"
                                  [] OTHER -> @]
    /\ UNCHANGED <<req, outcome, verdict, file_read, out>>

\* The job returns: the worker goes back to the queue.
JobEnd(w) ==
    /\ workers[w] = "busy"
    /\ pc[job[w]] \in {"done", "dropped"}
    /\ workers' = [workers EXCEPT ![w] = "idle"]
    /\ job' = [job EXCEPT ![w] = 0]
    /\ drop_connection(job[w])
    /\ UNCHANGED <<confVars, queue>>

\* The job panics: the worker's thread unwinds and ends.
JobPanic(w) ==
    /\ workers[w] = "busy"
    /\ pc[job[w]] \in {"panic", "handshake_panic"}
    /\ workers' = [workers EXCEPT ![w] = "dead"]
    /\ drop_connection(job[w])
    /\ UNCHANGED <<confVars, job, queue>>

\* The files the server of the model is started with, and the requests its
\* clients send.
ServerConfigFiles ==
    { ServerConfigFile(Absent, 1, 1), ServerConfigFile(Absent, 2, 1) }

ServerRequests == { GET \o <<SP, "/", "e">> \o Terminator, Terminator }

\* main: GlobalConfig::init has been called; the server is not yet made
ServerInit ==
    /\ \E f \in ServerConfigFiles :
          /\ GLOBAL_CONFIG = SomeConfig(de_Config(f.doc).v)
          /\ last_call = Call("init", f, "ok")
    /\ workers = <<>>
    /\ job = <<>>
    /\ queue = <<>>
    /\ req \in [1..NConn -> ServerRequests]
    /\ InitConn(1..NConn, "new")

ServerNext ==
    \/ \E ok \in BOOLEAN : DashServer_new(ok)
    \/ \E c \in Conns : Accept(c)
    \/ AcceptError
    \/ \E w \in DOMAIN workers : Dequeue(w)
    \/ \E c \in Conns, ok \in BOOLEAN : Handshake(c, ok)
    \/ \E w \in DOMAIN workers : JobEnd(w)
    \/ \E w \in DOMAIN workers : JobPanic(w)
    \/ \E c \in Conns : Start(c)
    \/ \E c \in Conns : Tick(c)
    \/ \E c \in Conns :
          \E n \in ChunkSizes(Min(Len(req[c]) - sent[c], MAX_REQUEST_SIZE)) :
             ReadData(c, n)
    \/ \E c \in Conns : ReadZero(c)
    \/ \E c \in Conns, error \in ReadErrors : ReadError(c, error)
    \/ \E c \in Conns, ok \in BOOLEAN : WriteStatus(c, ok)
    \/ \E c \in Conns, ok \in BOOLEAN : WriteHead(c, ok)
    \/ \E c \in Conns, ok \in BOOLEAN : WriteBody(c, ok)
    \/ \E c \in Conns, ok \in BOOLEAN : Flush(c, ok)

SpecServer == ServerInit /\ [][ServerNext]_vars

-----------------------------------------------------------------------------
(* SpecHeader: is_end_of_header by itself, called on every buffer of at    *)
(* most MaxBufLen bytes out of "\r", "\n" and "A".  buf[c] is the argument *)
(* of call c and verdict[c] the value returned.                            *)

HeaderBytes == {CR, LF, "A"}

Buffers ==
    UNION { {SubSeq(f, 1, k) : f \in [1..k -> HeaderBytes]} : k \in 0..MaxBufLen }

\* Lines 16-35, called as in line 89: is_end_of_header(&buf[..])
call_is_end_of_header(c) ==
    /\ pc[c] = "call"
    /\ verdict' = [verdict EXCEPT ![c] =
                      IF is_end_of_header(buf[c]) THEN "true" ELSE "false"]
    /\ pc' = [pc EXCEPT ![c] = "returned"]
    /\ UNCHANGED <<confVars, poolVars, req, sent, buf, nreads, gap, elapsed,
                   outcome, read_error, file_read, out>>

HeaderInit ==
    /\ GLOBAL_CONFIG = NoConfig
    /\ last_call = Call("none", MissingFile, "ok")
    /\ workers = <<>>
    /\ job = <<>>
    /\ queue = <<>>
    /\ req = <<<<>>>>
    /\ pc = <<"call">>
    /\ sent = <<0>>
    /\ buf \in {<<b>> : b \in Buffers}
    /\ nreads = <<0>>
    /\ gap = <<0>>
    /\ elapsed = <<0>>
    /\ outcome = <<"none">>
    /\ read_error = <<NoError>>
    /\ verdict = <<"none">>
    /\ file_read = <<<<>>>>
    /\ out = <<<<>>>>

HeaderNext == \E c \in Conns : call_is_end_of_header(c)

SpecHeader == HeaderInit /\ [][HeaderNext]_vars

-----------------------------------------------------------------------------
(* SpecConfig: the configuration singleton from process start, under every *)
(* sequence of init (on every file of the model), config() and             *)
(* DashServer::new.                                                        *)

ConfigInit ==
    /\ GLOBAL_CONFIG = NoConfig
    /\ last_call = Call("none", MissingFile, "ok")
    /\ workers = <<>>
    /\ job = <<>>
    /\ queue = <<>>
    /\ req = <<>>
    /\ InitConn({}, "new")

ConfigNext ==
    \/ \E f \in ConfigFiles : GlobalConfig_init(f)
    \/ GlobalConfig_config
    \/ \E ok \in BOOLEAN : DashServer_new(ok)

SpecConfig == ConfigInit /\ [][ConfigNext]_vars

-----------------------------------------------------------------------------
(* SpecInitRace: GlobalConfig::init called from two threads at once.  The  *)
(* steps of one call are the read of GLOBAL_CONFIG in the assertion, the   *)
(* reading and parsing of the file, and the write of GLOBAL_CONFIG; there  *)
(* is no lock and GLOBAL_CONFIG is a `static mut`, so the steps of the two *)
(* calls interleave freely.  pc[t] is where the call of thread t stands    *)
(* and file_read[t] = <<file>> what is at the path it was called with.     *)

InitThreads == {1, 2}

RaceFiles ==
    { MissingFile, InvalidJsonFile, EmptyObjectFile,
      ServerConfigFile(JStr("https://o"), 1, 2),
      ServerConfigFile(Absent, 2, 1) }

\* Line 150, the write of GLOBAL_CONFIG with no synchronisation: over None
\* the new value is stored; two such writes race, and what the static holds
\* afterwards is either value or parts of both
racing_store(old, new) ==
    IF old.configuration = <<>> THEN {new}
    ELSE { SomeConfig([network |-> n, performance |-> p, security |-> s]) :
             n \in {old.configuration[1].network,
                     new.configuration[1].network},
             p \in {old.configuration[1].performance,
                     new.configuration[1].performance},
             s \in {old.configuration[1].security,
                     new.configuration[1].security} }

\* Line 144: assert!(!GlobalConfig::is_init())
init_assert(t) ==
    /\ pc[t] = "call"
    /\ IF is_init
       THEN /\ pc' = [pc EXCEPT ![t] = "assert_panic"]
            /\ last_call' = Call("init", file_read[t][1], "assertion failed")
       ELSE /\ pc' = [pc EXCEPT ![t] = "asserted"]
            /\ UNCHANGED last_call
    /\ UNCHANGED <<GLOBAL_CONFIG, poolVars, req, sent, buf, nreads, gap,
                   elapsed, outcome, read_error, verdict, file_read, out>>

\* Lines 146-147: read_to_string(..).expect(..), from_str(..).expect(..)
init_parse(t) ==
    /\ pc[t] = "asserted"
    /\ LET file == file_read[t][1]
       IN  IF ~file.readable
           THEN /\ pc' = [pc EXCEPT ![t] = "file_panic"]
                /\ last_call' = Call("init", file,
                                     "Cannot read the configuration file")
           ELSE IF ~file.json \/ ~de_Config(file.doc).ok
           THEN /\ pc' = [pc EXCEPT ![t] = "file_panic"]
                /\ last_call' = Call("init", file, "Json formatting error")
           ELSE /\ pc' = [pc EXCEPT ![t] = "parsed"]
                /\ UNCHANGED last_call
    /\ UNCHANGED <<GLOBAL_CONFIG, poolVars, req, sent, buf, nreads, gap,
                   elapsed, outcome, read_error, verdict, file_read, out>>

\* Lines 149-152: unsafe { GLOBAL_CONFIG = GlobalConfig { .. Some(conf) } }
init_store(t) ==
    /\ pc[t] = "parsed"
    /\ GLOBAL_CONFIG' \in
          racing_store(GLOBAL_CONFIG,
                       SomeConfig(de_Config(file_read[t][1].doc).v))
    /\ last_call' = Call("init", file_read[t][1], "ok")
    /\ pc' = [pc EXCEPT ![t] = "stored"]
    /\ UNCHANGED <<poolVars, req, sent, buf, nreads, gap, elapsed, outcome,
                   read_error, verdict, file_read, out>>

InitRaceInit ==
    /\ GLOBAL_CONFIG = NoConfig
    /\ last_call = Call("none", MissingFile, "ok")
    /\ workers = <<>>
    /\ job = <<>>
    /\ queue = <<>>
    /\ pc = [t \in InitThreads |-> "call"]
    /\ file_read \in [InitThreads -> {<<f>> : f \in RaceFiles}]
    /\ req = [t \in InitThreads |-> <<>>]
    /\ sent = [t \in InitThreads |-> 0]
    /\ buf = [t \in InitThreads |-> <<>>]
    /\ nreads = [t \in InitThreads |-> 0]
    /\ gap = [t \in InitThreads |-> 0]
    /\ elapsed = [t \in InitThreads |-> 0]
    /\ outcome = [t \in InitThreads |-> "none"]
    /\ read_error = [t \in InitThreads |-> NoError]
    /\ verdict = [t \in InitThreads |-> "none"]
    /\ out = [t \in InitThreads |-> <<>>]

InitRaceNext ==
    \/ \E t \in InitThreads : init_assert(t)
    \/ \E t \in InitThreads : init_parse(t)
    \/ \E t \in InitThreads : init_store(t)

SpecInitRace == InitRaceInit /\ [][InitRaceNext]_vars

-----------------------------------------------------------------------------
(* main.rs: main and its handle_client: a pool of four threads, no         *)
(* configuration, one read of at most 1024 bytes and no read timeout.      *)

NUL == "<00>"
main_buf_size == 1024
main_pool_size == 4

\* Lines 18-20: let mut buf = [0 as u8; 1024]; stream.read(&mut buf): the
\* bytes read, then the zeros the array was made with
main_buf(bytes) ==
    bytes \o [i \in 1..(main_buf_size - Len(bytes)) |-> NUL]

\* Lines 90-92: let stream = acceptor.accept(stream).unwrap();
\*              handle_client(stream);
main_Handshake(c, ok) ==
    /\ pc[c] = "handshake"
    /\ pc' = [pc EXCEPT ![c] = IF ok THEN "main_read" ELSE "handshake_panic"]
    /\ UNCHANGED <<confVars, poolVars, req, sent, buf, nreads, gap, elapsed,
                   outcome, read_error, verdict, file_read, out>>

\* Lines 18-56, stream.read(&mut buf) returning Ok(n): the whole array is
\* decoded and parsed
main_Read(c, n) ==
    /\ pc[c] = "main_read"
    /\ LET buf2 == main_buf(SubSeq(req[c], 1, n))
           p == parse_request(buf2)
       IN  /\ buf' = [buf EXCEPT ![c] = buf2]
           /\ verdict' = [verdict EXCEPT ![c] = p.verdict]
           /\ file_read' = [file_read EXCEPT ![c] = p.read]
           /\ pc' = [pc EXCEPT ![c] =
                        IF after_parse(p.verdict) = "write_head"
                        THEN "main_write_head" ELSE after_parse(p.verdict)]
    /\ sent' = [sent EXCEPT ![c] = n]
    /\ nreads' = [nreads EXCEPT ![c] = 1]
    /\ outcome' = [outcome EXCEPT ![c] = "complete"]
    /\ UNCHANGED <<confVars, poolVars, req, gap, elapsed, read_error, out>>

\* Line 20, stream.read(&mut buf) returning Err: unwrap panics
main_ReadError(c) ==
    /\ pc[c] = "main_read"
    /\ outcome' = [outcome EXCEPT ![c] = "error"]
    /\ pc' = [pc EXCEPT ![c] = "panic"]
    /\ UNCHANGED <<confVars, poolVars, req, sent, buf, nreads, gap, elapsed,
                   read_error, verdict, file_read, out>>

\* Lines 54-63: the head of the 200 response, with the origin "*"
main_WriteHead(c, ok) ==
    /\ pc[c] = "main_write_head"
    /\ LET relative_path == file_read[c][1]
           file_data == fs_read(relative_path).data
           head == response_head("*", file_type(relative_path),
                                 Len(file_data))
       IN  out' = [out EXCEPT ![c] = Append(@, WriteCall("write", head, ok))]
    /\ pc' = [pc EXCEPT ![c] = IF ok THEN "write_body" ELSE "panic"]
    /\ UNCHANGED <<confVars, poolVars, req, sent, buf, nreads, gap, elapsed,
                   outcome, read_error, verdict, file_read>>

\* The requests the clients of main send in the model.
MainRequests == { GET \o <<SP, "/", "e", LF>> }

\* main before its loop: the pool of line 85, no configuration
MainInit ==
    /\ GLOBAL_CONFIG = NoConfig
    /\ last_call = Call("none", MissingFile, "ok")
    /\ workers = ThreadPool_new(main_pool_size)
    /\ job = [w \in 1..main_pool_size |-> 0]
    /\ queue = <<>>
    /\ req \in [1..NConn -> MainRequests]
    /\ InitConn(1..NConn, "new")

MainNext ==
    \/ \E c \in Conns : Accept(c)
    \/ AcceptError
    \/ \E w \in DOMAIN workers : Dequeue(w)
    \/ \E c \in Conns, ok \in BOOLEAN : main_Handshake(c, ok)
    \/ \E w \in DOMAIN workers : JobEnd(w)
    \/ \E w \in DOMAIN workers : JobPanic(w)
    \/ \E c \in Conns :
          \E n \in {0} \cup ChunkSizes(Min(Len(req[c]), main_buf_size)) :
             main_Read(c, n)
    \/ \E c \in Conns : main_ReadError(c)
    \/ \E c \in Conns, ok \in BOOLEAN : WriteStatus(c, ok)
    \/ \E c \in Conns, ok \in BOOLEAN : main_WriteHead(c, ok)
    \/ \E c \in Conns, ok \in BOOLEAN : WriteBody(c, ok)
    \/ \E c \in Conns, ok \in BOOLEAN : Flush(c, ok)

SpecMain == MainInit /\ [][MainNext]_vars

-----------------------------------------------------------------------------
(* C6 *)

\* the TLS handshake of connection c has failed
HandshakeFailed(c) == pc[c] \in {"dropped", "handshake_panic"}

\* C6, as claimed: a failed TLS handshake writes nothing on its connection
\* and costs the server nothing: the worker that ran the handshake is still
\* there to serve later connections.
C6_FailedHandshakeHarmless ==
    \A c \in Conns :
        HandshakeFailed(c)
        => /\ out[c] = <<>>
           /\ \A w \in DOMAIN workers : job[w] = c => workers[w] # "dead"

-----------------------------------------------------------------------------
(* C7 *)

\* connection c is in the TLS handshake or in handle_client
InService(c) ==
    pc[c] \in {"handshake", "start", "read", "write_404", "write_405",
               "write_408", "write_413", "write_head", "write_body", "flush"}

AllWorkersBusy ==
    workers # <<>> /\ \A w \in DOMAIN workers : workers[w] = "busy"

AtMostPoolSizeInService ==
    workers # <<>>
    => Cardinality({c \in Conns : InService(c)})
          <= config.performance.thread_pool_size

-----------------------------------------------------------------------------
(* C8 *)

\* C8: the stored configuration changes only from uninitialized to
\* initialized, by an init that ends well; an init called once the
\* configuration is initialized fails its assertion and leaves the stored
\* configuration as it was; config() and DashServer::new never change it.
C8_ConfigSetOnce ==
    [][/\ GLOBAL_CONFIG' # GLOBAL_CONFIG
          => /\ GLOBAL_CONFIG = NoConfig
             /\ GLOBAL_CONFIG' # NoConfig
             /\ last_call'.op = "init"
             /\ last_call'.result = "ok"
       /\ (is_init /\ last_call'.op = "init" /\ last_call' # last_call)
          => /\ last_call'.result = "assertion failed"
             /\ GLOBAL_CONFIG' = GLOBAL_CONFIG]_vars

C8_Witness ==
    /\ is_init
    /\ workers # <<>>
    /\ last_call.op = "init"
    /\ last_call.result = "assertion failed"
    /\ last_call.file.readable /\ last_call.file.json
    /\ de_Config(last_call.file.doc).ok
    /\ SomeConfig(de_Config(last_call.file.doc).v) # GLOBAL_CONFIG

-----------------------------------------------------------------------------
(* C9 *)

WrongType(val, type) == val.t \notin {"absent", type}

\* a file that cannot be read, is not JSON, or has a section that is no
\* object or a field whose value is of another JSON type than the field
BadFile(file) ==
    \/ ~file.readable
    \/ ~file.json
    \/ \E sec \in {file.doc.network, file.doc.performance, file.doc.security} :
          sec.kind = "other"
    \/ WrongType(file.doc.network.address, "string")
    \/ WrongType(file.doc.network.port, "string")
    \/ WrongType(file.doc.network.allowOrigin, "string")
    \/ WrongType(file.doc.performance.threadPoolSize, "number")
    \/ WrongType(file.doc.performance.connectionTimeout, "number")
    \/ WrongType(file.doc.security.https, "bool")
    \/ WrongType(file.doc.security.certificateFile, "string")
    \/ WrongType(file.doc.security.privateKeyFile, "string")

InitPanics ==
    {"assertion failed", "Cannot read the configuration file",
     "Json formatting error"}

\* C9: an init on a file that cannot be read, is not valid JSON or has a
\* field of the wrong type panics and stores nothing; if the configuration
\* was uninitialized it still is, and a config() that follows panics.
C9_BadFilePublishesNothing ==
    /\ [][(last_call'.op = "init" /\ last_call' # last_call
             /\ BadFile(last_call'.file))
          => /\ last_call'.result \in InitPanics
             /\ GLOBAL_CONFIG' = GLOBAL_CONFIG]_vars
    /\ []((last_call.op = "init" /\ BadFile(last_call.file)
             /\ last_call.result # "assertion failed")
          => ~is_init)
    /\ [][(~is_init /\ last_call'.op = "config")
          => last_call'.result = "unwrap on None"]_vars

C9_Witness ==
    /\ last_call.op = "config"
    /\ last_call.result = "unwrap on None"
    /\ last_call.file.readable /\ last_call.file.json
    /\ BadFile(last_call.file)
    /\ ~is_init

-----------------------------------------------------------------------------
(* C12 *)

\* C12, as claimed: every 200 response has an Access-Control-Allow-Origin
\* header whose value is network.allowOrigin of the configuration the
\* process has loaded, whatever value is configured.
C12_AllowOriginFromConfig ==
    \A c \in Conns :
        Has200Head(c)
        => /\ HasHeader(out[c][1].data, "Access-Control-Allow-Origin: ")
           /\ is_init
           /\ HeaderValue(out[c][1].data, "Access-Control-Allow-Origin: ")
                 = <<config.network.allow_origin>>

-----------------------------------------------------------------------------
(* C19 *)

\* the workers that can take a job, now or when their job is over
LiveWorkers == {w \in DOMAIN workers : workers[w] # "dead"}

\* every connection handled so far ended well or in one of the errors of a
\* request, a read, a file or a write: none ended on a read of zero bytes
NoZeroRead == \A c \in Conns : outcome[c] # "closed"

\* C19, as claimed: whatever errors connections have ended in (a malformed
\* or disallowed request, oversize, a timeout, a TLS fault, a missing file,
\* a failed write), the workers able to take jobs are as many as the pool
\* was made with, so that a connection accepted afterwards has a worker to
\* dequeue and handle it.
C19_ErrorsStayLocal ==
    (workers # <<>> /\ NoZeroRead)
    => /\ Cardinality(LiveWorkers) = config.performance.thread_pool_size
       /\ queue # <<>> => LiveWorkers # {}

-----------------------------------------------------------------------------
(* C21 *)

-----------------------------------------------------------------------------
(* C22 *)

\* target t with its leading "/" removed, and nothing else removed
LessLeadingSlash(t) == IF t # <<>> /\ t[1] = "/" THEN Tail(t) ELSE t

\* a complete GET request whose target is longer than one byte
IsGetOfLongTarget(c) ==
    /\ outcome[c] = "complete"
    /\ HasTarget(c)
    /\ Method(c).tok[1] = GET
    /\ str_len(Target(c).tok[1]) > 1

\* C22, as claimed: for a GET request whose target is longer than one byte,
\* the path the handler hands to fs::read is the target with its leading "/"
\* removed and nothing else removed: no character other than a leading "/"
\* is dropped from the target.
C22_PathIsTargetLessSlash ==
    \A c \in Conns :
        (IsGetOfLongTarget(c) /\ file_read[c] # <<>>)
        => file_read[c][1] = LessLeadingSlash(Target(c).tok[1])

-----------------------------------------------------------------------------
(* C23 *)

StatusResponses == {RESPONSE_404, RESPONSE_405, RESPONSE_408, RESPONSE_413}

StatusLines == {"HTTP/1.1 200 OK"} \cup {r[1] : r \in StatusResponses}

\* the calls on the stream of connection c, in order
Calls(c) == [i \in 1..Len(out[c]) |-> out[c][i].op]

IsPrefixOf(s, t) == Len(s) <= Len(t) /\ SubSeq(t, 1, Len(s)) = s

\* head h of a response is a status line, then header lines, then the blank
\* line, and nothing after it
IsOrderedHead(h) ==
    /\ Len(h) >= 3
    /\ h[1] \in StatusLines
    /\ h[2] = CRLF
    /\ BlankLine(h) = Len(h) - 1
    /\ \A i \in 2..Len(h) : h[i] \notin StatusLines

\* what is on the stream of connection c is one response or the beginning
\* of one
IsOneResponse(c) ==
    \/ out[c] = <<>>
    \/ /\ Len(out[c]) = 1
       /\ out[c][1].op = "write"
       /\ out[c][1].data \in StatusResponses
       /\ IsOrderedHead(out[c][1].data)
    \/ /\ Has200Head(c)
       /\ IsPrefixOf(Calls(c), <<"write", "write_all", "flush">>)
       /\ IsOrderedHead(out[c][1].data)
       /\ file_read[c] # <<>>
       /\ Len(out[c]) >= 2 => out[c][2].data = fs_read(file_read[c][1]).data
       /\ Len(out[c]) >= 3 => out[c][3].data = <<>>

\* C23: on every connection the handler writes at most one response, in
\* the order status line, headers, blank line, body, flush; there is at most
\* one status line on the stream, a call on the stream follows successful
\* calls only, and after the first write the handler reads no more: the
\* buffer, the count of reads and the outcome of the read loop stay as they
\* are and the handler is never at a read again.
C23_OneResponseInOrder ==
    /\ [](\A c \in Conns :
            /\ IsOneResponse(c)
            /\ Cardinality({i \in 1..Len(Wire(c)) :
                               Wire(c)[i] \in StatusLines}) <= 1
            /\ \A i \in 1..(Len(out[c]) - 1) : out[c][i].ok
            /\ out[c] # <<>> => pc[c] \notin {"start", "read"})
    /\ [][\A c \in Conns :
            out[c] # <<>>
            => /\ pc'[c] \notin {"start", "read"}
               /\ buf'[c] = buf[c]
               /\ sent'[c] = sent[c]
               /\ nreads'[c] = nreads[c]
               /\ outcome'[c] = outcome[c]
               /\ read_error'[c] = read_error[c]
               /\ IsPrefixOf(out[c], out'[c])]_vars

C23_Witness ==
    \E c \in Conns :
        /\ pc[c] = "done"
        /\ Calls(c) = <<"write", "write_all", "flush">>
        /\ AllWritesOk(c)
        /\ nreads[c] > 1
        /\ out[c][2].data # <<>>
        /\ ResponseBody(Wire(c)) = out[c][2].data

-----------------------------------------------------------------------------
(* C24 *)

\* the calls of GlobalConfig::init that wrote GLOBAL_CONFIG
Stored == {t \in Conns : pc[t] = "stored"}

\* C24, as claimed: when GlobalConfig::init is called from two threads at
\* once, under every interleaving of the is_init check and the write of
\* GLOBAL_CONFIG at most one call stores a configuration, the other
\* panicking on the assertion (which it does only when a configuration has
\* been stored).
C24_AtMostOneInitStores ==
    /\ Cardinality(Stored) <= 1
    /\ \A t \in Conns : pc[t] = "assert_panic" => Stored # {}

=============================================================================
